---- MODULE Spec2Model ----
(***************************************************************************)
(* A model of montage's Router (route patterns, parse, stringify,          *)
(* observePath) and RouteController (the two-way binding of path and       *)
(* state).  Paths and patterns are strings; JavaScript values are tagged   *)
(* records; objects live in a small heap so that identity, replacement and *)
(* in-place mutation can be told apart.                                    *)
(***************************************************************************)
EXTENDS Integers, Sequences, FiniteSets

(***************************************************************************)
(* JavaScript values.                                                      *)
(***************************************************************************)
Undefined == [t |-> "undefined"]
Null == [t |-> "null"]
NaN == [t |-> "nan"]
Str(s) == [t |-> "str", v |-> s]
Num(n) == [t |-> "num", v |-> n]
\* An array value (the result of parse) and references into the heap.
Arr(q) == [t |-> "arr", v |-> q]
ObjRef(i) == [t |-> "obj", id |-> i]
ArrRef(i) == [t |-> "ref", id |-> i]
\* The outcome of a call that threw.
Throw == [t |-> "throw"]

\* x == null (also true of undefined)
IsNullish(x) == x.t \in {"undefined", "null"}

\* !x
IsFalsy(x) ==
    \/ x.t \in {"undefined", "null", "nan"}
    \/ x.t = "str" /\ x.v = ""
    \/ x.t = "num" /\ x.v = 0
    \/ x.t = "bool" /\ ~x.v

\* object[key], undefined for a key the object does not have
Get(object, key) == IF key \in DOMAIN object THEN object[key] ELSE Undefined

\* a function object, with its length property
Function(length) == [t |-> "function", length |-> length]

\* the properties an object made by {} inherits, and the length of each
ObjectPrototype ==
    [constructor |-> 1, hasOwnProperty |-> 1, isPrototypeOf |-> 1,
     propertyIsEnumerable |-> 1, toLocaleString |-> 0, toString |-> 0, valueOf |-> 0]

\* table[key] for a table made by {}: an own property or an inherited one
Lookup(table, key) ==
    IF key \in DOMAIN table THEN [t |-> "own", v |-> table[key]]
    ELSE IF key \in DOMAIN ObjectPrototype THEN Function(ObjectPrototype[key])
    ELSE Undefined

(***************************************************************************)
(* Characters and numbers as text.                                         *)
(***************************************************************************)
Ch(s, i) == SubSeq(s, i, i)

CharsOf(s) == {Ch(s, i) : i \in 1..Len(s)}

DigitChars == CharsOf("0123456789")

\* \w
WordChars == CharsOf("abcdefghijklmnopqrstuvwxyzABCDEFGHIJKLMNOPQRSTUVWXYZ0123456789_")

\* [-[\]{}()*+.\^$|,#\s]
SpecialChars == CharsOf("-[]{}()*+.^$|,# ")

\* the complement of the "literal" class [^/:*+.&]
SignificantChars == CharsOf("/:*+.&")

DigitChar(d) == Ch("0123456789", d + 1)

DigitValue(c) == CHOOSE d \in 0..9 : DigitChar(d) = c

RECURSIVE NatToString(_)
NatToString(n) ==
    IF n < 10 THEN DigitChar(n) ELSE NatToString(n \div 10) \o DigitChar(n % 10)

RECURSIVE DigitsValue(_, _)
DigitsValue(s, acc) ==
    IF s = "" THEN acc ELSE DigitsValue(Tail(s), 10 * acc + DigitValue(Head(s)))

\* the length of the longest run of characters of class C starting at from
RECURSIVE RunLength(_, _, _)
RunLength(s, from, C) ==
    IF from <= Len(s) /\ Ch(s, from) \in C THEN 1 + RunLength(s, from + 1, C) ELSE 0

\* parseInt(s, 10) of a string without sign or leading blanks
ParseInt(s) ==
    LET n == RunLength(s, 1, DigitChars)
    IN  IF n = 0 THEN NaN ELSE Num(DigitsValue(SubSeq(s, 1, n), 0))

\* "" + x
StringOf(x) ==
    CASE x.t = "str" -> x.v
      [] x.t = "num" -> NatToString(x.v)
      [] x.t = "nan" -> "NaN"
      [] x.t = "null" -> "null"
      [] OTHER -> "undefined"

ToLower(c) ==
    LET up == "ABCDEFGHIJKLMNOPQRSTUVWXYZ"
        lo == "abcdefghijklmnopqrstuvwxyz"
    IN  IF \E i \in 1..26 : Ch(up, i) = c
        THEN Ch(lo, CHOOSE i \in 1..26 : Ch(up, i) = c)
        ELSE c

RECURSIVE LowerCase(_)
LowerCase(s) == IF s = "" THEN "" ELSE ToLower(Head(s)) \o LowerCase(Tail(s))

\* encodeURIComponent, on the characters the model's values are made of
EncodeChar(c) ==
    CASE c = "&" -> "%26"
      [] c = "/" -> "%2F"
      [] c = "%" -> "%25"
      [] c = " " -> "%20"
      [] OTHER -> c

RECURSIVE EncodeString(_)
EncodeString(s) == IF s = "" THEN "" ELSE EncodeChar(Head(s)) \o EncodeString(Tail(s))

encodeURIComponent(x) == EncodeString(StringOf(x))

\* decodeURIComponent: a string, or Throw for a malformed escape
RECURSIVE DecodeString(_)
DecodeString(s) ==
    IF s = "" THEN Str("")
    ELSE IF Head(s) # "%"
    THEN LET r == DecodeString(Tail(s))
         IN  IF r = Throw THEN Throw ELSE Str(Head(s) \o r.v)
    ELSE LET code == IF Len(s) >= 3 THEN SubSeq(s, 2, 3) ELSE ""
             c == CASE code = "26" -> "&"
                    [] code = "2F" -> "/"
                    [] code = "2f" -> "/"
                    [] code = "25" -> "%"
                    [] code = "20" -> " "
                    [] OTHER -> ""
         IN  IF c = "" THEN Throw
             ELSE LET r == DecodeString(SubSeq(s, 4, Len(s)))
                  IN  IF r = Throw THEN Throw ELSE Str(c \o r.v)

decodeURIComponent(s) == DecodeString(s)

(***************************************************************************)
(* The pattern tokenizer: the regular expression `expression` applied      *)
(* globally to a pattern.  A token has a slash flag and one of the kinds   *)
(* escape, variable, special, literal; a character no alternative matches  *)
(* is a "raw" token: String.replace leaves it in the RegExp source and no  *)
(* term is pushed for it.                                                  *)
(***************************************************************************)
\* the length of the longest run of "literal" characters starting at from
RECURSIVE LiteralRun(_, _)
LiteralRun(s, from) ==
    IF from <= Len(s) /\ Ch(s, from) \notin SignificantChars
    THEN 1 + LiteralRun(s, from + 1)
    ELSE 0

NoToken == [kind |-> "none", text |-> "", prefix |-> "", name |-> "", suffix |-> "", len |-> 0]

\* the alternatives of `expression` after its optional slash, tried in order at q
Alternative(s, q) ==
    LET c == IF q <= Len(s) THEN Ch(s, q) ELSE ""
        c2 == IF q + 1 <= Len(s) THEN Ch(s, q + 1) ELSE ""
        prefix == IF c \in {":", "*", "+"} THEN c
                  ELSE IF q + 2 <= Len(s) /\ SubSeq(s, q, q + 2) = "..." THEN "..."
                  ELSE ""
        nameAt == q + Len(prefix)
        nameLen == RunLength(s, nameAt, WordChars)
        sufAt == nameAt + nameLen
        suffix == IF sufAt <= Len(s) /\ Ch(s, sufAt) \in {"?", "&"} THEN Ch(s, sufAt) ELSE ""
    IN  IF c = "" THEN NoToken
        ELSE IF c = ":" /\ c2 \in {":", "*", "+", "&"}
        THEN [NoToken EXCEPT !.kind = "escape", !.text = c2, !.len = 2]
        ELSE IF prefix # ""
        THEN [NoToken EXCEPT !.kind = "variable", !.prefix = prefix,
                             !.name = SubSeq(s, nameAt, nameAt + nameLen - 1),
                             !.suffix = suffix,
                             !.len = Len(prefix) + nameLen + Len(suffix)]
        ELSE IF c \in SpecialChars
        THEN [NoToken EXCEPT !.kind = "special", !.text = c, !.len = 1]
        ELSE IF LiteralRun(s, q) > 0
        THEN [NoToken EXCEPT !.kind = "literal",
                             !.text = SubSeq(s, q, q + LiteralRun(s, q) - 1),
                             !.len = LiteralRun(s, q)]
        ELSE NoToken

\* one match of `expression`: the groups slash, escape/special/literal (text),
\* prefix, name, suffix
Token(tok, slash) ==
    [kind |-> tok.kind, slash |-> slash, text |-> tok.text,
     prefix |-> tok.prefix, name |-> tok.name, suffix |-> tok.suffix]

\* the matches of `expression` in pattern from position p on, left to right
RECURSIVE Tokens(_, _)
Tokens(pattern, p) ==
    IF p > Len(pattern) THEN <<>>
    ELSE LET hasSlash == Ch(pattern, p) = "/"
             q == IF hasSlash THEN p + 1 ELSE p
             Found(tok) ==
                 IF tok.kind = "none"
                 THEN <<Token([NoToken EXCEPT !.kind = "raw", !.text = Ch(pattern, p)], "")>>
                      \o Tokens(pattern, p + 1)
                 ELSE <<Token(tok, IF hasSlash THEN "/" ELSE "")>>
                      \o Tokens(pattern, q + tok.len)
         IN  Found(Alternative(pattern, q))

(***************************************************************************)
(* compileRegExp: the terms and variables of a pattern and its RegExp,     *)
(* kept as the sequence of the fragments the replace callback returns.     *)
(***************************************************************************)
LiteralTerm(value) == [type |-> "literal", value |-> value]

PathTerm == [type |-> "path"]

\* a literal fragment of the RegExp source
LitPart(text) == [k |-> "lit", text |-> text]

\* the fragment of a variable: "(/?.*)", "(?:/(T(?:\&T)*|))?" or "(?:/(T))" + "?"
VarPart(tok) ==
    IF tok.prefix = "..."
    THEN [k |-> "rest", slash |-> tok.slash]
    ELSE IF tok.suffix = "&"
    THEN [k |-> "plural", slash |-> tok.slash,
          cls |-> IF tok.prefix = "+" THEN "digits"
                  ELSE IF tok.prefix = "*" THEN "noamp" ELSE "noslashamp"]
    ELSE [k |-> "single", slash |-> tok.slash,
          cls |-> IF tok.prefix = "+" THEN "digits"
                  ELSE IF tok.prefix = "*" THEN "any" ELSE "noslash",
          optional |-> tok.suffix = "?"]

\* name || i++ : the property key the variable populates
VariableOf(tok, i) ==
    [type |-> "variable",
     prefix |-> tok.prefix,
     name |-> IF tok.name # "" THEN tok.name ELSE NatToString(i),
     numeric |-> tok.prefix = "+",
     optional |-> tok.suffix = "?",
     plural |-> tok.suffix = "&",
     slash |-> tok.slash # ""]

\* the compilation when the counter i counts the named variables too
RECURSIVE CompileTokensCountingAll(_, _, _, _)
CompileTokensCountingAll(tokens, k, i, acc) ==
    IF k > Len(tokens) THEN acc
    ELSE LET tok == tokens[k]
         IN  IF tok.kind = "variable"
             THEN LET variable == VariableOf(tok, i)
                      terms == IF tok.prefix = "..."
                               THEN <<variable, PathTerm>>
                               ELSE <<variable>>
                  IN  CompileTokensCountingAll(tokens, k + 1,
                          i + 1,
                          [acc EXCEPT !.variables = Append(@, variable),
                                      !.terms = @ \o terms,
                                      !.re = Append(@, VarPart(tok))])
             ELSE IF tok.kind = "raw"
             THEN CompileTokensCountingAll(tokens, k + 1, i,
                      [acc EXCEPT !.re = Append(@, LitPart(tok.text))])
             ELSE \* escape, literal, special
                  CompileTokensCountingAll(tokens, k + 1, i,
                      [acc EXCEPT !.terms = Append(@, LiteralTerm(tok.slash \o tok.text)),
                                  !.re = Append(@, LitPart(tok.slash \o tok.text))])

RECURSIVE CompileTokens(_, _, _, _)
CompileTokens(tokens, k, i, acc) ==
    IF k > Len(tokens) THEN acc
    ELSE LET tok == tokens[k]
         IN  IF tok.kind = "variable"
             THEN LET variable == VariableOf(tok, i)
                      terms == IF tok.prefix = "..."
                               THEN <<variable, PathTerm>>
                               ELSE <<variable>>
                  IN  CompileTokens(tokens, k + 1,
                          IF tok.name # "" THEN i ELSE i + 1,
                          [acc EXCEPT !.variables = Append(@, variable),
                                      !.terms = @ \o terms,
                                      !.re = Append(@, VarPart(tok))])
             ELSE IF tok.kind = "raw"
             THEN CompileTokens(tokens, k + 1, i,
                      [acc EXCEPT !.re = Append(@, LitPart(tok.text))])
             ELSE \* escape, literal, special
                  CompileTokens(tokens, k + 1, i,
                      [acc EXCEPT !.terms = Append(@, LiteralTerm(tok.slash \o tok.text)),
                                  !.re = Append(@, LitPart(tok.slash \o tok.text))])

compileRegExp(pattern, insensitive) ==
    CompileTokens(Tokens(pattern, 1), 1, 0,
                  [variables |-> <<>>, terms |-> <<>>, re |-> <<>>,
                   ignoreCase |-> ~IsFalsy(insensitive)])

(***************************************************************************)
(* RegExp.exec on the compiled fragments, anchored at both ends, with the  *)
(* priorities of a backtracking matcher: a group takes part before it is   *)
(* skipped and a repetition takes the longest run the rest can follow.     *)
(***************************************************************************)
NoMatch == [t |-> "nomatch"]

Matched(caps) == [t |-> "ok", caps |-> caps]

Max(S) == CHOOSE m \in S : \A n \in S : n <= m

\* \d+ , .* , [^/]*
SingleLang(cls, str) ==
    CASE cls = "digits" -> str # "" /\ CharsOf(str) \subseteq DigitChars
      [] cls = "any" -> TRUE
      [] OTHER -> "/" \notin CharsOf(str)

\* T(?:\&T)* for T = \d+ , [^&]* , [^/&]*
PluralLang(cls, str) ==
    CASE cls = "digits" ->
            /\ str # ""
            /\ CharsOf(str) \subseteq DigitChars \cup {"&"}
            /\ Ch(str, 1) # "&"
            /\ Ch(str, Len(str)) # "&"
            /\ \A i \in 1..(Len(str) - 1) : SubSeq(str, i, i + 1) # "&&"
      [] cls = "noamp" -> TRUE
      [] OTHER -> "/" \notin CharsOf(str)

RECURSIVE MatchFrom(_, _, _, _, _)
MatchFrom(re, k, s, pos, ignoreCase) ==
    IF k > Len(re)
    THEN IF pos = Len(s) + 1 THEN Matched(<<>>) ELSE NoMatch
    ELSE
    LET part == re[k]
        Rest(p) == MatchFrom(re, k + 1, s, p, ignoreCase)
        \* the capture s[from..e] for the largest e of E the rest can follow
        Greedy(from, E) ==
            LET ok == {e \in E : Rest(e + 1).t = "ok"}
            IN  IF ok = {} THEN NoMatch
                ELSE Matched(<<Str(SubSeq(s, from, Max(ok)))>> \o Rest(Max(ok) + 1).caps)
        Skip(cap, p) ==
            IF Rest(p).t = "ok" THEN Matched(<<cap>> \o Rest(p).caps) ELSE NoMatch
        OrElse(a, b) == IF a.t = "ok" THEN a ELSE b
        SlashHere == pos <= Len(s) /\ Ch(s, pos) = "/"
    IN  CASE part.k = "lit" ->
                LET n == Len(part.text)
                    seg == IF pos + n - 1 <= Len(s) THEN SubSeq(s, pos, pos + n - 1) ELSE ""
                    same == IF ignoreCase
                            THEN LowerCase(seg) = LowerCase(part.text)
                            ELSE seg = part.text
                IN  IF pos + n - 1 <= Len(s) /\ same THEN Rest(pos + n) ELSE NoMatch
          [] part.k = "rest" ->
                OrElse(IF part.slash # "" /\ SlashHere
                       THEN Greedy(pos, pos..Len(s))
                       ELSE NoMatch,
                       Greedy(pos, (pos - 1)..Len(s)))
          [] part.k = "single" ->
                LET from == pos + Len(part.slash)
                    E == {e \in (from - 1)..Len(s) : SingleLang(part.cls, SubSeq(s, from, e))}
                IN  OrElse(IF part.slash = "" \/ SlashHere THEN Greedy(from, E) ELSE NoMatch,
                           IF part.optional THEN Skip(Undefined, pos) ELSE NoMatch)
          [] OTHER -> \* plural
                LET from == pos + Len(part.slash)
                    E == {e \in (from - 1)..Len(s) : PluralLang(part.cls, SubSeq(s, from, e))}
                IN  OrElse(IF part.slash = "" \/ SlashHere THEN Greedy(from, E) ELSE NoMatch,
                    OrElse(IF part.slash = "" \/ SlashHere THEN Skip(Str(""), from) ELSE NoMatch,
                           Skip(Undefined, pos)))

\* regExp.exec(path): the capture groups, one per variable, or NoMatch
Exec(route, path) == MatchFrom(route.re, 1, path, 1, route.ignoreCase)

(***************************************************************************)
(* compile and the match function of a compiled route.                     *)
(***************************************************************************)
\* compile passes three arguments to compileRegExp: its fourth, insensitive,
\* is undefined there
compile(pattern, destination, insensitive) ==
    LET Route(c) ==
            [destination |-> destination, variables |-> c.variables, terms |-> c.terms,
             re |-> c.re, ignoreCase |-> c.ignoreCase]
    IN  Route(compileRegExp(pattern, Undefined))

EmptyObject == [key \in {} |-> Undefined]

\* object[key] = value
Put(object, key, value) ==
    [x \in DOMAIN object \cup {key} |-> IF x = key THEN value ELSE object[x]]

\* value.split("&")
RECURSIVE Split(_)
Split(s) ==
    LET n == RunLength(s, 1, CharsOf(s) \ {"&"})
    IN  IF n = Len(s) THEN <<s>>
        ELSE <<SubSeq(s, 1, n)>> \o Split(SubSeq(s, n + 2, Len(s)))

\* the values of a plural variable when the capture is not split at "&"
PluralValuesUnsplit(value, numeric) ==
    IF value = "" THEN Arr(<<>>)
    ELSE IF decodeURIComponent(value) = Throw THEN Throw
    ELSE Arr(<<IF numeric THEN ParseInt(decodeURIComponent(value).v)
               ELSE decodeURIComponent(value)>>)

\* values.map(decodeURIComponent), then parseInt for a numeric variable
PluralValues(value, numeric) ==
    IF value = "" THEN Arr(<<>>)
    ELSE LET pieces == Split(value)
             decoded == [i \in 1..Len(pieces) |-> decodeURIComponent(pieces[i])]
         IN  IF \E i \in 1..Len(pieces) : decoded[i] = Throw THEN Throw
             ELSE Arr([i \in 1..Len(pieces) |->
                          IF numeric THEN ParseInt(decoded[i].v) ELSE decoded[i]])

\* the object match returns: destination, parameters and path
MatchResult(destination, parameters, remainingPath) ==
    [t |-> "object", destination |-> Str(destination),
     parameters |-> [t |-> "object", f |-> parameters],
     remainingPath |-> Undefined,
     path |-> remainingPath]

RECURSIVE MatchVariables(_, _, _, _, _)
MatchVariables(route, caps, i, parameters, remainingPath) ==
    IF i > Len(route.variables)
    THEN MatchResult(route.destination, parameters, remainingPath)
    ELSE LET variable == route.variables[i]
             \* match[i + 1] || ""
             value == IF IsFalsy(caps[i]) THEN "" ELSE caps[i].v
         IN  IF variable.plural
             THEN LET values == PluralValues(value, variable.numeric)
                  IN  IF values = Throw THEN Throw
                      ELSE MatchVariables(route, caps, i + 1,
                               Put(parameters, variable.name, values), remainingPath)
             ELSE LET single == IF variable.numeric THEN ParseInt(value) ELSE Str(value)
                  IN  IF variable.prefix = "..."
                      THEN MatchVariables(route, caps, i + 1, parameters, single)
                      ELSE MatchVariables(route, caps, i + 1,
                               Put(parameters, variable.name, single), remainingPath)

\* route.match(path): a result object, undefined, or Throw
match(route, path) ==
    LET Result(m) ==
            IF m.t # "ok" THEN Undefined
            ELSE MatchVariables(route, m.caps, 1, EmptyObject, Undefined)
    IN  Result(Exec(route, path))

(***************************************************************************)
(* Router: the constructor, parse and stringify.  A route table is the     *)
(* sequence of the [pattern, destination] entries of the routes object in  *)
(* the order of Object.keys.                                               *)
(***************************************************************************)
\* the variables of the last route only
FlattenLast(seqs) == IF seqs = <<>> THEN <<>> ELSE seqs[Len(seqs)]

RECURSIVE Flatten(_)
Flatten(seqs) == IF seqs = <<>> THEN <<>> ELSE Head(seqs) \o Flatten(Tail(seqs))

IsIndex(name) == CharsOf(name) \subseteq DigitChars

\* Object.keys of an object whose properties were set in the order of names:
\* array indices first, ascending, then the other keys in insertion order
ObjectKeys(names) ==
    LET first == {i \in 1..Len(names) : \A j \in 1..(i - 1) : names[j] # names[i]}
        idx == {i \in first : IsIndex(names[i])}
        str == first \ idx
        Before(i, j) ==
            IF i \in idx /\ j \in idx
            THEN DigitsValue(names[i], 0) < DigitsValue(names[j], 0)
            ELSE IF i \in idx \/ j \in idx THEN i \in idx
            ELSE i < j
    IN  [n \in 1..Cardinality(first) |->
            names[CHOOSE i \in first : Cardinality({j \in first : Before(j, i)}) = n - 1]]

\* terms[term.name] = term for the variables of every route of a destination
TermsObject(variables) ==
    LET names == [i \in 1..Len(variables) |-> variables[i].name]
    IN  [keys |-> ObjectKeys(names),
         f |-> [name \in {names[i] : i \in 1..Len(names)} |->
                  variables[Max({i \in 1..Len(names) : names[i] = name})]]]

Router(prefix, routes, insensitive) ==
    LET destinations == {routes[i].destination : i \in 1..Len(routes)}
        VariablesOf(table) == Flatten([i \in 1..Len(table) |-> table[i].variables])
        Tables(table) ==
            LET RoutesOf(d) == LET To(route) == route.destination = d
                               IN  SelectSeq(table, To)
            IN  [table |-> table,
                 backTable |-> [d \in destinations |-> RoutesOf(d)],
                 termsForDestination |->
                    [d \in destinations |-> TermsObject(VariablesOf(RoutesOf(d)))]]
    IN  Tables([i \in 1..Len(routes) |->
                  compile(prefix \o routes[i].pattern, routes[i].destination, insensitive)])

\* parse: the first truthy match in table order; undefined when there is none
RECURSIVE ParseFrom(_, _, _)
ParseFrom(router, path, i) ==
    IF i > Len(router.table) THEN Undefined
    ELSE LET Found(m) == IF m = Undefined THEN ParseFrom(router, path, i + 1) ELSE m
         IN  Found(match(router.table[i], path))

\* parse that never tries the first route
parseFromSecond(router, path) == ParseFrom(router, path, 2)

\* parse that returns the match of the last route that matches
parseLastMatch(router, path) ==
    LET matching == {i \in 1..Len(router.table) : match(router.table[i], path) # Undefined}
    IN  IF matching = {} THEN Undefined ELSE match(router.table[Max(matching)], path)

parse(router, path) == ParseFrom(router, path, 1)

\* state.parameters[term.name].map(encodeURIComponent).join("&")
RECURSIVE JoinEncoded(_)
JoinEncoded(values) ==
    IF values = <<>> THEN ""
    ELSE IF Len(values) = 1 THEN encodeURIComponent(values[1])
    ELSE encodeURIComponent(values[1]) \o "&" \o JoinEncoded(Tail(values))

\* the parts pushed when a parameter is tested for truth, not for null
RECURSIVE StringifyTruthyTerms(_, _, _)
StringifyTruthyTerms(terms, j, state) ==
    IF j > Len(terms) THEN Str("")
    ELSE LET term == terms[j]
             value == IF term.type = "variable" /\ ~IsNullish(state.parameters)
                      THEN Get(state.parameters.f, term.name)
                      ELSE Undefined
             rest == StringifyTruthyTerms(terms, j + 1, state)
             Part(text) == IF rest = Throw THEN Throw ELSE Str(text \o rest.v)
         IN  IF term.type = "literal" THEN Part(term.value)
             ELSE IF term.type = "variable" /\ ~IsFalsy(value)
             THEN IF term.plural
                  THEN IF value.t # "arr" THEN Throw
                       ELSE Part((IF term.slash THEN "/" ELSE "") \o JoinEncoded(value.v))
                  ELSE Part((IF term.slash THEN "/" ELSE "") \o StringOf(value))
             ELSE IF term.type = "variable" /\ term.plural /\ term.slash
             THEN Part("/")
             ELSE Part("")

\* the parts pushed for the terms from j on; Throw when .map is called on a
\* value that is no array
RECURSIVE StringifyTerms(_, _, _)
StringifyTerms(terms, j, state) ==
    IF j > Len(terms) THEN Str("")
    ELSE LET term == terms[j]
             value == IF term.type = "variable" /\ ~IsNullish(state.parameters)
                      THEN Get(state.parameters.f, term.name)
                      ELSE Undefined
             rest == StringifyTerms(terms, j + 1, state)
             Part(text) == IF rest = Throw THEN Throw ELSE Str(text \o rest.v)
         IN  IF term.type = "literal" THEN Part(term.value)
             ELSE IF term.type = "variable" /\ ~IsNullish(value)
             THEN IF term.plural
                  THEN IF value.t # "arr" THEN Throw
                       ELSE Part((IF term.slash THEN "/" ELSE "") \o JoinEncoded(value.v))
                  ELSE Part((IF term.slash THEN "/" ELSE "") \o StringOf(value))
             ELSE IF term.type = "variable" /\ term.plural /\ term.slash
             THEN Part("/")
             ELSE Part("")

\* stringify that generates from the first route of the destination
stringifyFromFirst(router, state) ==
    LET table == Lookup(router.backTable, StringOf(state.destination))
        Joined(parts) ==
            IF parts = Throw THEN Throw
            ELSE Str(parts.v \o (IF IsFalsy(state.remainingPath)
                                 THEN ""
                                 ELSE StringOf(state.remainingPath)))
    IN  IF table = Undefined THEN Throw
        ELSE IF table.t = "function"
        THEN IF table.length = 0 THEN Undefined ELSE Throw
        ELSE Joined(StringifyTerms(table.v[1].terms, 1, state))

\* stringify: the loop over the routes of the destination starts at the last
\* one and returns in its first iteration.  For a destination that names an
\* inherited property of backTable the table is a function: with length 0
\* the loop is skipped and nothing is returned, else table[length - 1] is
\* undefined and reading its terms throws
stringify(router, state) ==
    LET table == Lookup(router.backTable, StringOf(state.destination))
        route == table.v[Len(table.v)]
        Joined(parts) ==
            IF parts = Throw THEN Throw
            ELSE Str(parts.v \o (IF IsFalsy(state.remainingPath)
                                 THEN ""
                                 ELSE StringOf(state.remainingPath)))
    IN  IF table = Undefined THEN Throw
        ELSE IF table.t = "function"
        THEN IF table.length = 0 THEN Undefined ELSE Throw
        ELSE Joined(StringifyTerms(route.terms, 1, state))

\* the route table of the router's tests
TestRoutes ==
    << [pattern |-> "photos/+photoIds&", destination |-> "photos"],
       [pattern |-> "photos.:format", destination |-> "photo-format"],
       [pattern |-> "photo/+photoId", destination |-> "photo"],
       [pattern |-> "photo/+photoId/comments/+commentId", destination |-> "photo-comment"],
       [pattern |-> "notes/:noteId?", destination |-> "notes"],
       [pattern |-> "notes/:noteId?/detail", destination |-> "notes-detail"],
       [pattern |-> "a/:/b/:", destination |-> "ab"],
       [pattern |-> "::", destination |-> "colon"] >>

TestRouter == Router("/", TestRoutes, Undefined)

(***************************************************************************)
(* The configuration the reactive part is checked with.                    *)
(***************************************************************************)
\* RouteController.prefix and RouteController.caseInsensitive, as constructed
Prefix == ""

CaseInsensitive == [t |-> "bool", v |-> FALSE]

\* the routes object: two routes lead to "photos", the later one generates;
\* the values of "tags" are decoded, so parse throws for a malformed escape
Routes ==
    << [pattern |-> "/photos/+id", destination |-> "photos"],
       [pattern |-> "/photos/+ids&", destination |-> "photos"],
       [pattern |-> "/notes/:id?", destination |-> "notes"],
       [pattern |-> "/::", destination |-> "colon"],
       [pattern |-> "/tags/:tags&", destination |-> "tags"] >>

TheRouter == Router(Prefix, Routes, CaseInsensitive)

(***************************************************************************)
(* The state: a heap of state objects, parameters objects and arrays, the  *)
(* observers installed on them, and the controller's own properties.       *)
(***************************************************************************)
VARIABLES
    objs,      \* state objects: destination, parameters, remainingPath, path
    params,    \* parameters objects: name -> value
    colls,     \* arrays: the sequence of their elements
    obs,       \* the per-parameter property observers, in registration order
    ranges,    \* the range observers of arrays, in registration order
    link,      \* the observers of a state's parameters, remainingPath, destination
    path,      \* the path property (the test's path variable)
    state,     \* the state property
    inFlux,    \* RouteController._inFlux
    emitter,   \* which emit function observePath was given
    emitted,   \* the argument of the last call of emit
    emits,     \* the calls of emit made by the last operation
    threw,     \* whether the last operation threw into its caller
    parses,    \* the times the last operation made the path observer parse
    writes,    \* the times the last operation made the controller's emit assign path
    lastOp,    \* the last operation
    ops,       \* the operations so far
    args,      \* the arguments the Router was constructed with
    input,     \* the argument of the first call of parse or stringify
    output,    \* what the last call of parse or stringify returned
    controller,\* the LocationController: path, query, _base, _mode, _popstate
    window     \* the window: its session history, History API and base tag

vars == <<objs, params, colls, obs, ranges, link, path, state, inFlux, emitter,
          emitted, emits, threw, parses, writes, lastOp, ops, args, input, output,
          controller, window>>

\* the machine an operation starts from
Machine ==
    [objs |-> objs, params |-> params, colls |-> colls, obs |-> obs,
     ranges |-> ranges, link |-> link, path |-> path, state |-> state, inFlux |-> inFlux, emitter |-> emitter,
     emitted |-> emitted, emits |-> 0, threw |-> FALSE, parses |-> 0, writes |-> 0]

\* routes: the routes property is not null; router: _router is set;
\* pathObserver, stateObserver: the controller's two observers are registered;
\* cancelers: _cancelPathObserver and _cancelStateObserver are set; on:
\* observePath's observers of state are registered; state: the object they
\* observe; cancelDestination: the observers the function changeDestination
\* returned would cancel
NoLink ==
    [routes |-> FALSE, router |-> FALSE, pathObserver |-> FALSE,
     stateObserver |-> FALSE, cancelers |-> FALSE, on |-> FALSE,
     state |-> Undefined, cancelDestination |-> {}]

\* a state object read through its references: what stringify sees
StateValue(m, sid) ==
    LET o == m.objs[sid]
        Deref(v) == IF v.t = "ref" THEN Arr(m.colls[v.id]) ELSE v
    IN  [t |-> "object",
         destination |-> o.destination,
         parameters |-> IF o.parameters.t = "obj"
                        THEN [t |-> "object",
                              f |-> [k \in DOMAIN m.params[o.parameters.id] |->
                                        Deref(m.params[o.parameters.id][k])]]
                        ELSE o.parameters,
         remainingPath |-> o.remainingPath,
         path |-> o.path]

(***************************************************************************)
(* Router.observePath and the RouteController's observers.  An operation   *)
(* maps a machine to the machine it leaves; once threw is set the rest of  *)
(* the call chain is skipped, as an exception unwinds it.                  *)
(***************************************************************************)
RECURSIVE Emit(_, _), AssignPath(_, _), PathObserver(_, _), AssignState(_, _),
          StateObserver(_), observePath(_, _), changeParameters(_), changePath(_),
          changeDestination(_), changeParameter(_, _, _), ParameterCallback(_, _),
          EmitStringify(_, _)

\* the controller's emit without its test of _inFlux
EmitUnguarded(m, value) ==
    LET m1 == [m EXCEPT !.emitted = value, !.emits = @ + 1]
    IN  IF m.emitter = "test" THEN [m1 EXCEPT !.path = value]
        ELSE [AssignPath([m1 EXCEPT !.inFlux = TRUE, !.writes = @ + 1], value)
                EXCEPT !.inFlux = FALSE]

\* the emit of the tests (path = _path) and the emit the controller passes to
\* observePath
Emit(m, value) ==
    LET m1 == [m EXCEPT !.emitted = value, !.emits = @ + 1]
    IN  IF m.emitter = "test" THEN [m1 EXCEPT !.path = value]
        ELSE IF m1.inFlux THEN m1
        ELSE [AssignPath([m1 EXCEPT !.inFlux = TRUE, !.writes = @ + 1], value)
                EXCEPT !.inFlux = FALSE]

\* emit(self.stringify(state))
EmitStringify(m, sid) ==
    LET Call(p) == IF p = Throw THEN [m EXCEPT !.threw = TRUE] ELSE Emit(m, p)
    IN  Call(stringify(TheRouter, StateValue(m, sid)))

\* the range observers but those observer i made
WithoutRanges(m, i) ==
    LET Other(r) == r.observer # i IN [m EXCEPT !.ranges = SelectSeq(@, Other)]

\* the function observeProperty(parameters, name, ...) is given, for observer i
\* and the current value of the parameter, after the range observer it
\* returned last was cancelled: observeRangeChange calls its function and then
\* listens to the array
ParameterCallback(m, i) ==
    LET o == m.obs[i]
        value == Get(m.params[o.params], o.name)
        Observed(m1) ==
            IF o.plural /\ ~IsNullish(value) /\ ~m1.threw
            THEN [m1 EXCEPT !.ranges = Append(@, [observer |-> i, array |-> value.id])]
            ELSE m1
    IN  Observed(EmitStringify(WithoutRanges(m, i), o.state))

\* names.map(changeParameter), from the i-th name on
changeParameter(m, names, i) ==
    IF i > Len(names) \/ m.threw THEN m
    ELSE LET sid == m.link.state.id
             terms == TheRouter.termsForDestination[StringOf(m.objs[sid].destination)]
             name == names[i]
             parameters == m.objs[sid].parameters
             o == [state |-> sid, params |-> parameters.id, name |-> name,
                   plural |-> terms.f[name].plural, live |-> TRUE]
         IN  changeParameter(
                 IF name = "" THEN Emit(m, Undefined)
                 ELSE IF IsNullish(parameters) THEN EmitStringify(m, sid)
                 ELSE ParameterCallback([m EXCEPT !.obs = Append(@, o)], Len(m.obs) + 1),
                 names, i + 1)

\* what changeDestination returns for the observers its map created: it has
\* no return statement
ReturnedCancelers(created) == {}

\* Object.keys of a function is empty: the map makes no call
changeDestination(m) ==
    LET destination == IF IsNullish(m.link.state) THEN Undefined
                       ELSE m.objs[m.link.state.id].destination
        terms == Lookup(TheRouter.termsForDestination, StringOf(destination))
        names == IF terms.t = "function" THEN <<>> ELSE terms.v.keys
        Return(m1) ==
            [m1 EXCEPT !.link.cancelDestination =
                           ReturnedCancelers((Len(m.obs) + 1)..Len(m1.obs))]
    IN  IF IsNullish(m.link.state) \/ terms = Undefined
        THEN Emit(m, Undefined)
        ELSE Return(changeParameter(m, names, 1))

changePath(m) == changeDestination(m)

changeParameters(m) == changePath(m)

\* the cancel function of the destination observer: it cancels what
\* changeDestination returned
CancelDestination(m) ==
    LET Other(r) == r.observer \notin m.link.cancelDestination
    IN  [m EXCEPT !.obs = [i \in 1..Len(@) |->
                              IF i \in m.link.cancelDestination
                              THEN [@[i] EXCEPT !.live = FALSE]
                              ELSE @[i]],
                  !.ranges = SelectSeq(@, Other),
                  !.link.cancelDestination = {}]

\* the cancel function observePath returns
CancelObservePath(m) == [CancelDestination(m) EXCEPT !.link.on = FALSE]

observePath(m, stateValue) ==
    changeParameters([m EXCEPT !.link.on = TRUE, !.link.state = stateValue])

\* a property of state object sid changed: the observer of that property
\* cancels what its function returned and calls it again
StateObjectChanged(m, sid) ==
    IF m.link.on /\ m.link.state = ObjRef(sid)
    THEN changeParameters(CancelDestination(m))
    ELSE m

\* parameters[name] changed: its observers run in registration order
RECURSIVE NotifyParameter(_, _, _, _)
NotifyParameter(m, pid, name, i) ==
    IF i > Len(m.obs) \/ m.threw THEN m
    ELSE IF m.obs[i].live /\ m.obs[i].params = pid /\ m.obs[i].name = name
    THEN NotifyParameter(ParameterCallback(m, i), pid, name, i + 1)
    ELSE NotifyParameter(m, pid, name, i + 1)

\* the content of array cid changed: its range observers run in registration
\* order
RECURSIVE NotifyRange(_, _, _)
NotifyRange(m, cid, k) ==
    IF k > Len(m.ranges) \/ m.threw THEN m
    ELSE IF m.ranges[k].array = cid
    THEN NotifyRange(EmitStringify(m, m.obs[m.ranges[k].observer].state), cid, k + 1)
    ELSE NotifyRange(m, cid, k + 1)

(***************************************************************************)
(* RouteController.                                                        *)
(***************************************************************************)
RECURSIVE SeqOf(_)
SeqOf(S) ==
    IF S = {} THEN <<>>
    ELSE LET x == CHOOSE y \in S : TRUE IN <<x>> \o SeqOf(S \ {x})

\* the objects of a parse result, allocated in the heap
AllocateState(m, r) ==
    LET f == r.parameters.f
        arrays == SeqOf({k \in DOMAIN f : f[k].t = "arr"})
        At(k) == CHOOSE i \in 1..Len(arrays) : arrays[i] = k
    IN  [m EXCEPT
            !.colls = @ \o [i \in 1..Len(arrays) |-> f[arrays[i]].v],
            !.params = Append(@, [k \in DOMAIN f |->
                                    IF f[k].t = "arr" THEN ArrRef(Len(m.colls) + At(k))
                                    ELSE f[k]]),
            !.objs = Append(@, [destination |-> r.destination,
                                parameters |-> ObjRef(Len(m.params) + 1),
                                remainingPath |-> r.remainingPath,
                                path |-> r.path])]

\* the function the controller observes its state property with
StateObserver(m) == observePath(CancelObservePath(m), m.state)

\* self.state = value, for what parse returned
AssignState(m, r) ==
    LET new == IF r = Undefined THEN Undefined ELSE ObjRef(Len(m.objs) + 1)
        Assigned(m1) == IF m1.link.stateObserver THEN StateObserver(m1) ELSE m1
    IN  IF new = m.state THEN m
        ELSE Assigned([IF r = Undefined THEN m ELSE AllocateState(m, r)
                          EXCEPT !.state = new])

\* the path observer without its finally block: an exception leaves _inFlux set
PathObserverWithoutFinally(m, value) ==
    IF IsNullish(value) THEN m
    ELSE IF m.inFlux THEN m
    ELSE LET m1 == [m EXCEPT !.inFlux = TRUE, !.parses = @ + 1]
             Assign(r) == IF r = Throw THEN [m1 EXCEPT !.threw = TRUE]
                          ELSE AssignState(m1, r)
             Reset(m2) == IF m2.threw THEN m2 ELSE [m2 EXCEPT !.inFlux = FALSE]
         IN  Reset(Assign(parse(TheRouter, StringOf(value))))

\* the function the controller observes its path property with
PathObserver(m, value) ==
    IF IsNullish(value) THEN m
    ELSE IF m.inFlux THEN m
    ELSE LET m1 == [m EXCEPT !.inFlux = TRUE, !.parses = @ + 1]
             Assign(r) == IF r = Throw THEN [m1 EXCEPT !.threw = TRUE]
                          ELSE AssignState(m1, r)
         IN  [Assign(parse(TheRouter, StringOf(value))) EXCEPT !.inFlux = FALSE]

\* self.path = value
AssignPath(m, value) ==
    IF value = m.path THEN m
    ELSE IF m.link.pathObserver THEN PathObserver([m EXCEPT !.path = value], value)
    ELSE [m EXCEPT !.path = value]

\* _considerRouterChange, after routes was set to null or to a routes object.
\* It calls the cancel functions it stored, also when they were called
\* before; whether a cancel function called again removes its listener
\* quietly is up to the observers library: tolerant
considerRouterChange(m, routes, tolerant) ==
    LET m0 == [m EXCEPT !.link.routes = ~IsNullish(routes)]
        m1 == [CancelObservePath(m0) EXCEPT !.link.pathObserver = FALSE,
                                            !.link.stateObserver = FALSE]
        ObserveState(m2) ==
            IF m2.threw THEN m2
            ELSE StateObserver([m2 EXCEPT !.link.stateObserver = TRUE,
                                          !.link.cancelers = TRUE])
    IN  IF m.link.cancelers /\ ~m.link.pathObserver /\ ~tolerant
        THEN [m0 EXCEPT !.threw = TRUE]
        ELSE IF IsNullish(CaseInsensitive) \/ IsNullish(Str(Prefix)) \/ IsNullish(routes)
        THEN [m1 EXCEPT !.link.router = FALSE]
        ELSE ObserveState(PathObserver([m1 EXCEPT !.link.router = TRUE,
                                                  !.link.pathObserver = TRUE],
                                       m1.path))

(***************************************************************************)
(* Bounds and the values the application assigns.                          *)
(***************************************************************************)
\* the most operations of a behaviour
MaxOps == 5

DestinationValues ==
    {Str("photos"), Str("notes"), Str("colon"), Str("nowhere"), Str("toString")}

RemainingPathValues == {Undefined, Str("/more")}

ParameterNames == {"id", "ids"}

ParameterValues(name) ==
    IF name = "ids" THEN {Null} \cup {ArrRef(c) : c \in 1..Len(colls)}
    ELSE {Null, Num(7)}

\* the parameters objects whose properties the application assigns: the first
MutableParameters == 1..Len(params) \cap {1}

PathValues ==
    {Null, Str("/photos"), Str("/photos/10"), Str("/notes/7"), Str("/:"), Str("/lost"),
     Str("/tags/%")}

(***************************************************************************)
(* The operations.  A property observer is told of changes: an assignment  *)
(* of the value a property has already dispatches nothing, so each         *)
(* assignment below assigns another value.                                 *)
(***************************************************************************)
Commit(m, op) ==
    /\ ops < MaxOps
    /\ ops' = ops + 1
    /\ objs' = m.objs
    /\ params' = m.params
    /\ colls' = m.colls
    /\ obs' = m.obs
    /\ ranges' = m.ranges
    /\ link' = m.link
    /\ path' = m.path
    /\ state' = m.state
    /\ inFlux' = m.inFlux
    /\ emitter' = m.emitter
    /\ emitted' = m.emitted
    /\ emits' = m.emits
    /\ threw' = m.threw
    /\ parses' = m.parses
    /\ writes' = m.writes
    /\ lastOp' = op
    /\ UNCHANGED <<args, input, output, controller, window>>

\* state.destination = d
SetDestination(sid, d) ==
    /\ d # objs[sid].destination
    /\ Commit(StateObjectChanged([Machine EXCEPT !.objs[sid].destination = d], sid),
              [op |-> "destination", sid |-> sid])

\* state.remainingPath = r
SetRemainingPath(sid, r) ==
    /\ r # objs[sid].remainingPath
    /\ Commit(StateObjectChanged([Machine EXCEPT !.objs[sid].remainingPath = r], sid),
              [op |-> "remainingPath", sid |-> sid])

\* state.parameters = p
SetParameters(sid, p) ==
    /\ p # objs[sid].parameters
    /\ Commit(StateObjectChanged([Machine EXCEPT !.objs[sid].parameters = p], sid),
              [op |-> "parameters", sid |-> sid])

\* parameters[name] = v
SetParameter(pid, name, v) ==
    /\ v # Get(params[pid], name)
    /\ Commit(NotifyParameter([Machine EXCEPT !.params[pid] = Put(@, name, v)],
                              pid, name, 1),
              [op |-> "parameter", pid |-> pid, name |-> name])

\* array.push(x)
Push(cid) ==
    /\ Commit(NotifyRange([Machine EXCEPT
                              !.colls[cid] = Append(@, Num(10 * (Len(@) + 1)))],
                          cid, 1),
              [op |-> "push", cid |-> cid])

\* the cancel function observePath returned is called
Release ==
    /\ link.on
    /\ Commit(CancelObservePath(Machine), [op |-> "release"])

Mutate ==
    \/ \E sid \in 1..Len(objs), d \in DestinationValues : SetDestination(sid, d)
    \/ \E sid \in 1..Len(objs), r \in RemainingPathValues : SetRemainingPath(sid, r)
    \/ \E sid \in 1..Len(objs), p \in {Null} \cup {ObjRef(i) : i \in 1..Len(params)} :
          SetParameters(sid, p)
    \/ \E pid \in MutableParameters, name \in ParameterNames :
          \E v \in ParameterValues(name) : SetParameter(pid, name, v)
    \/ \E cid \in 1..Len(colls) : Push(cid)

(***************************************************************************)
(* Spec: Router.observePath on one state object, with the emit of the      *)
(* router's tests.                                                         *)
(***************************************************************************)
\* the state object and the application's objects before observePath is called
TestMachine(d) ==
    [objs |-> << [destination |-> d, parameters |-> ObjRef(1),
                  remainingPath |-> Undefined, path |-> Undefined] >>,
     params |-> << [id |-> Null, ids |-> ArrRef(1)],
                   [id |-> Num(7), ids |-> ArrRef(2)] >>,
     colls |-> << <<>>, <<>> >>,
     obs |-> <<>>, ranges |-> <<>>, link |-> NoLink, path |-> Undefined,
     state |-> ObjRef(1),
     inFlux |-> FALSE, emitter |-> "test", emitted |-> Undefined, emits |-> 0,
     threw |-> FALSE, parses |-> 0, writes |-> 0]

\* the variables hold machine m after operation op
Start(m, op) ==
    /\ objs = m.objs
    /\ params = m.params
    /\ colls = m.colls
    /\ obs = m.obs
    /\ ranges = m.ranges
    /\ link = m.link
    /\ path = m.path
    /\ state = m.state
    /\ inFlux = m.inFlux
    /\ emitter = m.emitter
    /\ emitted = m.emitted
    /\ emits = m.emits
    /\ threw = m.threw
    /\ parses = m.parses
    /\ writes = m.writes
    /\ lastOp = op
    /\ ops = 0

\* typeof window === "undefined": there is no LocationController
NoWindow ==
    /\ controller = Null
    /\ window = Undefined

\* no call of parse or stringify from outside: the Router is TheRouter
NoCall ==
    /\ NoWindow
    /\ args = [prefix |-> Prefix, routes |-> Routes, insensitive |-> CaseInsensitive]
    /\ input = Undefined
    /\ output = Undefined

Init ==
    /\ \E d \in {Str("photos"), Str("notes")} :
          Start(observePath(TestMachine(d), ObjRef(1)), [op |-> "observePath"])
    /\ NoCall

Next == Mutate \/ Release

Spec == Init /\ [][Next]_vars

(***************************************************************************)
(* SpecRC: a RouteController from its construction on.                     *)
(***************************************************************************)
\* controller.routes = routes, for null or a routes object with the entries of
\* Routes
SetRoutes(routes, tolerant) ==
    /\ ~(IsNullish(routes) /\ ~link.routes)
    /\ Commit(considerRouterChange(Machine, routes, tolerant), [op |-> "routes"])

\* controller.path = p
SetPath(p) ==
    /\ p # path
    /\ Commit(AssignPath(Machine, p), [op |-> "path", value |-> p])

\* controller.state = v, for an object parse made earlier or null
SetState(v) ==
    /\ v # state
    /\ Commit(IF link.stateObserver
              THEN StateObserver([Machine EXCEPT !.state = v])
              ELSE [Machine EXCEPT !.state = v],
              [op |-> "state"])

ControllerMachine ==
    [objs |-> <<>>, params |-> <<>>, colls |-> <<>>, obs |-> <<>>, ranges |-> <<>>,
     link |-> NoLink, path |-> Null, state |-> Null, inFlux |-> FALSE, emitter |-> "controller",
     emitted |-> Undefined, emits |-> 0, threw |-> FALSE, parses |-> 0, writes |-> 0]

InitRC == Start(ControllerMachine, [op |-> "constructor"]) /\ NoCall

NextRC ==
    \/ \E routes \in {Null, ObjRef(0)}, tolerant \in BOOLEAN : SetRoutes(routes, tolerant)
    \/ \E p \in PathValues : SetPath(p)
    \/ \E v \in {Null} \cup {ObjRef(i) : i \in 1..Len(objs)} : SetState(v)
    \/ Mutate

SpecRC == InitRC /\ [][NextRC]_vars

(***************************************************************************)
(* SpecRouter: a Router as constructed, and parse, match and stringify     *)
(* applied to one argument: parse and match to a path, stringify to a      *)
(* state, and then parse to the path stringify returned and stringify to   *)
(* the state parse returned.                                               *)
(***************************************************************************)
\* a routes object with remainders, with named and unnamed variables, and
\* with patterns that have characters no alternative of expression matches:
\* the trailing "/" of the routes doc's example and a lone "&"
MoreRoutes ==
    << [pattern |-> "files/...", destination |-> "files"],
       [pattern |-> "docs/:name/...rest", destination |-> "docs"],
       [pattern |-> "mix/:first/:/+", destination |-> "mix"],
       [pattern |-> "tags/:tags&", destination |-> "tags"],
       [pattern |-> "photos/", destination |-> "photos"],
       [pattern |-> "q&a", destination |-> "qa"] >>

True == [t |-> "bool", v |-> TRUE]

\* the arguments of new Router(prefix, routes, insensitive)
RouterArguments ==
    { [prefix |-> "/", routes |-> TestRoutes, insensitive |-> Undefined],
      [prefix |-> "/", routes |-> TestRoutes, insensitive |-> True],
      [prefix |-> "/", routes |-> MoreRoutes, insensitive |-> Undefined],
      [prefix |-> Prefix, routes |-> Routes, insensitive |-> CaseInsensitive] }

\* the Router constructed with the arguments a
RouterOf(a) == Router(a.prefix, a.routes, a.insensitive)

\* the paths parse and match are given
PathInputs ==
    { "", "/lost", "/:",
      "/photos", "/photos/", "/photos/10", "/photos/10&20", "/photos/10&20&30",
      "/photos/x", "/photos.jpg", "/PHOTOS/10", "/Photos",
      "/photo/5", "/photo/5/comments/6",
      "/notes", "/notes/", "/notes/7", "/notes/detail", "/notes/7/detail", "/Notes/7",
      "/a/x/b/y",
      "/files", "/files/a/b", "/docs/x/y/z", "/mix/a/b/3", "/tags/x%26y&z",
      "/q&a", "/qa" }

\* the values a state gives the parameter of a variable, or leaves it out
Absent == [t |-> "absent"]

ValueInputs(variable) ==
    {Absent} \cup
    IF variable.prefix = "..." THEN {}
    ELSE IF variable.plural
    THEN IF variable.numeric
         THEN {Arr(<<>>), Arr(<<Num(10)>>), Arr(<<Num(10), Num(20), Num(30)>>)}
         ELSE {Arr(<<>>), Arr(<<Str("x&y"), Str("z")>>)}
    ELSE IF variable.numeric THEN {Num(0), Num(42)}
    ELSE {Str(""), Str("a"), Num(0)}

\* a state object: what parse returns has these fields and path
StateObject(destination, parameters, remainingPath) ==
    [t |-> "object", destination |-> destination,
     parameters |-> parameters, remainingPath |-> remainingPath]

\* a parameters object with the properties of assignment that are not left out
ParametersObject(assignment) ==
    [t |-> "object",
     f |-> [name \in {n \in DOMAIN assignment : assignment[n] # Absent} |->
              assignment[name]]]

\* the states stringify is given: for each destination of the router the
\* assignments to the names of its terms, with and without a remaining path
\* where a route of the destination has a remainder, and states without
\* parameters or with a destination no route leads to
StateInputs(router) ==
    LET OfDestination(d) ==
            LET terms == router.termsForDestination[d].f
                remainders == IF \E n \in DOMAIN terms : terms[n].prefix = "..."
                              THEN {Undefined, Str("/a/b")}
                              ELSE {Undefined}
                assignments ==
                    {f \in [DOMAIN terms -> UNION {ValueInputs(terms[n]) : n \in DOMAIN terms}] :
                        \A n \in DOMAIN terms : f[n] \in ValueInputs(terms[n])}
            IN  {StateObject(Str(d), ParametersObject(f), r) :
                    f \in assignments, r \in remainders}
                \cup {StateObject(Str(d), Null, Undefined)}
    IN  UNION {OfDestination(d) : d \in DOMAIN router.backTable}
        \cup {StateObject(Str("nowhere"), ParametersObject(EmptyObject), Undefined)}

\* a call: the Router's tables are not changed by it
Call(op, value) ==
    /\ ops < MaxOps
    /\ ops' = ops + 1
    /\ lastOp' = op
    /\ output' = value
    /\ UNCHANGED <<objs, params, colls, obs, ranges, link, path, state, inFlux,
                   emitter, emitted, emits, threw, parses, writes, args, input,
                   controller, window>>

\* router.parse(path)
Parse ==
    /\ lastOp.op = "input"
    /\ input.t = "str"
    /\ Call([op |-> "parse"], parse(RouterOf(args), input.v))

\* router.table[i].match(path)
Match(i) ==
    /\ lastOp.op = "input"
    /\ input.t = "str"
    /\ Call([op |-> "match", route |-> i], match(RouterOf(args).table[i], input.v))

\* router.stringify(state)
Stringify ==
    /\ lastOp.op = "input"
    /\ input.t = "object"
    /\ Call([op |-> "stringify"], stringify(RouterOf(args), input))

\* router.parse(router.stringify(state)), its second call
ParseStringified ==
    /\ lastOp.op = "stringify"
    /\ output.t = "str"
    /\ Call([op |-> "parseStringified"], parse(RouterOf(args), output.v))

\* router.stringify(router.parse(path)), its second call
StringifyParsed ==
    /\ lastOp.op = "parse"
    /\ output.t = "object"
    /\ Call([op |-> "stringifyParsed"], stringify(RouterOf(args), output))

InitRouter ==
    \E a \in RouterArguments :
        \E x \in {Str(p) : p \in PathInputs} \cup StateInputs(RouterOf(a)) :
            /\ Start(ControllerMachine, [op |-> "input"])
            /\ args = a
            /\ input = x
            /\ output = Undefined
            /\ NoWindow

NextRouter ==
    \/ Parse
    \/ \E i \in 1..Len(args.routes) : Match(i)
    \/ Stringify
    \/ ParseStringified
    \/ StringifyParsed

SpecRouter == InitRouter /\ [][NextRouter]_vars

(***************************************************************************)
(* SpecLocation: a LocationController and its window.  The window is its   *)
(* session history (the URLs of the entries and the place of the current   *)
(* one), whether it has the History API, and the href of its base tag.     *)
(* An operation maps the pair b of the controller c and the window w.      *)
(***************************************************************************)
\* s.indexOf(sub, from), counted from 1: 0 when sub does not occur
RECURSIVE IndexOf(_, _, _)
IndexOf(s, sub, from) ==
    IF from + Len(sub) - 1 > Len(s) THEN 0
    ELSE IF SubSeq(s, from, from + Len(sub) - 1) = sub THEN from
    ELSE IndexOf(s, sub, from + 1)

\* "" + window.location
Location(w) == w.entries[w.index]

\* hashbang.exec(window.location): match[1], or null
HashbangExec(href) ==
    LET At(i) == IF i = 0 THEN Null ELSE Str(SubSeq(href, i + 3, Len(href)))
    IN  At(IndexOf(href, "#!/", 1))

\* href up to its query or fragment: window.location.origin + pathname
OriginAndPathname(href) ==
    LET ends == {i \in 1..Len(href) : Ch(href, i) \in {"?", "#"}}
    IN  IF ends = {} THEN href
        ELSE SubSeq(href, 1, (CHOOSE i \in ends : \A j \in ends : i <= j) - 1)

\* href with its fragment replaced: fragment is "" or starts with "#"
WithFragment(href, fragment) ==
    LET UpTo(at) == IF at = 0 THEN href ELSE SubSeq(href, 1, at - 1)
    IN  UpTo(IndexOf(href, "#", 1)) \o fragment

\* window.history.replaceState(null, "", url)
replaceState(w, url) == [w EXCEPT !.entries[w.index] = url]

\* window.history.pushState(null, title, url): a new entry after the current
\* one, in place of the entries that followed it
pushState(w, url) ==
    [w EXCEPT !.entries = Append(SubSeq(@, 1, w.index), url), !.index = @ + 1]

\* window.location.hash = hash: a navigation to the fragment, which adds an
\* entry when the URL differs from the current one
AssignHash(w, hash) ==
    LET fragment == IF hash # "" /\ Ch(hash, 1) = "#"
                    THEN SubSeq(hash, 2, Len(hash))
                    ELSE hash
        Navigate(url) == IF url = Location(w) THEN w ELSE pushState(w, url)
    IN  Navigate(WithFragment(Location(w),
                              IF fragment = "" THEN "" ELSE "#" \o fragment))

handlePathPropertyChange(b, p) ==
    IF IsNullish(p) THEN b
    ELSE LET Reflect(hash) ==
                 IF b.w.history
                 THEN [b EXCEPT !.w = replaceState(@, b.c.base \o hash)]
                 ELSE [b EXCEPT !.w = AssignHash(@, hash)]
         IN  Reflect((IF b.c.mode = "hash" THEN "#!/" ELSE "") \o StringOf(p))

\* this.path = p: the path change listener is told of a change
AssignControllerPath(b, p) ==
    IF p = b.c.path THEN b
    ELSE handlePathPropertyChange([b EXCEPT !.c.path = p], p)

\* In the branch of the base, location is a string: location.search is the
\* method String.prototype.search, its property 0 is undefined, and query
\* becomes "".
computeRemainingPath(b) ==
    LET href == Location(b.w)
        Hashbang(found) ==
            LET Slice(queryIndex) ==
                    IF queryIndex > 0
                    THEN AssignControllerPath(
                             [b EXCEPT !.c.query =
                                 Str(SubSeq(found, queryIndex + 1, Len(found)))],
                             Str(SubSeq(found, 1, queryIndex - 1)))
                    ELSE AssignControllerPath([b EXCEPT !.c.query = Str("")], Str(found))
            IN  Slice(IndexOf(found, "?", 1))
        Base(remaining) ==
            AssignControllerPath(
                [b EXCEPT !.c.query = Str("")],
                Str(IF remaining # "" /\ Ch(remaining, 1) = "/"
                    THEN SubSeq(remaining, 2, Len(remaining))
                    ELSE remaining))
    IN  IF HashbangExec(href) # Null THEN Hashbang(HashbangExec(href).v)
        ELSE IF b.c.base # ""
        THEN IF Len(b.c.base) > Len(href) THEN b
             ELSE IF SubSeq(href, 1, Len(b.c.base)) # b.c.base THEN b
             ELSE Base(SubSeq(href, Len(b.c.base) + 1, Len(href)))
        ELSE b

\* handleEvent that recomputes on every hashchange
handleEveryEvent(b, type) ==
    IF type = "popstate"
    THEN [computeRemainingPath(b) EXCEPT !.c.popstate = TRUE]
    ELSE computeRemainingPath(b)

handleEvent(b, type) ==
    IF type = "popstate"
    THEN [computeRemainingPath(b) EXCEPT !.c.popstate = TRUE]
    ELSE IF type = "hashchange" /\ ~b.c.popstate
    THEN computeRemainingPath(b)
    ELSE b

mark(b) ==
    IF b.w.history /\ b.c.base # ""
    THEN [b EXCEPT !.w = pushState(@, Location(b.w))]
    ELSE b

\* the constructor, in window w: the listeners are added, _base and _mode are
\* set from the base tag or from the location, and the path is computed
LocationController(w) ==
    computeRemainingPath(
        [c |-> [path |-> Null, query |-> Null,
                base |-> IF w.base # Undefined THEN w.base.v
                         ELSE OriginAndPathname(Location(w)),
                mode |-> IF w.base # Undefined THEN "base" ELSE "hash",
                popstate |-> FALSE,
                listening |-> TRUE],
         w |-> w])

\* the windows a controller is constructed in: without a base tag or with the
\* base tag of "http://h/app/", with and without the History API
WindowInputs ==
    LET Window(href, history, base) ==
            [entries |-> <<href>>, index |-> 1, history |-> history, base |-> base]
    IN  {Window(href, h, Undefined) :
            href \in {"http://h/", "http://h/#!/a?q=1"}, h \in BOOLEAN}
        \cup {Window(href, h, Str("http://h/app/")) :
                href \in {"http://h/app/", "http://h/app/a?q=1"}, h \in BOOLEAN}

\* the controller and its window
Browser == [c |-> controller, w |-> window]

CommitLocation(b, op) ==
    /\ ops < MaxOps
    /\ ops' = ops + 1
    /\ lastOp' = op
    /\ controller' = b.c
    /\ window' = b.w
    /\ UNCHANGED <<objs, params, colls, obs, ranges, link, path, state, inFlux,
                   emitter, emitted, emits, threw, parses, writes, args, input,
                   output>>

\* the user navigates to a fragment: a new entry, and the hashchange event
Hashchange(fragment) ==
    /\ controller.listening
    /\ WithFragment(Location(window), fragment) # Location(window)
    /\ CommitLocation(
           handleEvent([Browser EXCEPT
                           !.w = pushState(@, WithFragment(Location(window), fragment))],
                       "hashchange"),
           [op |-> "hashchange", fragment |-> fragment])

\* the user goes back or forward to entry i: the popstate event
Popstate(i) ==
    /\ controller.listening
    /\ i # window.index
    /\ CommitLocation(handleEvent([Browser EXCEPT !.w.index = i], "popstate"),
                      [op |-> "popstate"])

\* controller.path = p
AssignLocationPath(p) ==
    /\ p # controller.path
    /\ CommitLocation(AssignControllerPath(Browser, p), [op |-> "path"])

\* controller.query = q: no listener is told
AssignQuery(q) ==
    /\ q # controller.query
    /\ CommitLocation([Browser EXCEPT !.c.query = q], [op |-> "query"])

Mark == CommitLocation(mark(Browser), [op |-> "mark"])

\* the destructor: the controller is no listener of the window's events
Destructor ==
    /\ controller.listening
    /\ CommitLocation([Browser EXCEPT !.c.listening = FALSE], [op |-> "destructor"])

InitLocation ==
    \E w \in WindowInputs :
        /\ Start(ControllerMachine, [op |-> "constructor"])
        /\ args = [prefix |-> Prefix, routes |-> Routes, insensitive |-> CaseInsensitive]
        /\ input = Undefined
        /\ output = Undefined
        /\ controller = LocationController(w).c
        /\ window = LocationController(w).w

NextLocation ==
    \/ \E fragment \in {"#!/a", "#!/b?q=2", "#top"} : Hashchange(fragment)
    \/ \E i \in 1..Len(window.entries) : Popstate(i)
    \/ \E p \in {Null, Str("a")} : AssignLocationPath(p)
    \/ \E q \in {Str(""), Str("q=1")} : AssignQuery(q)
    \/ Mark
    \/ Destructor

SpecLocation == InitLocation /\ [][NextLocation]_vars

(***************************************************************************)
(* The properties.  lastOp, emits, threw, parses and writes describe the   *)
(* operation that led to the state.                                        *)
(***************************************************************************)
Min(S) == CHOOSE m \in S : \A n \in S : m <= n

\* a route of Routes leads to destination d
Registered(d) == \E i \in 1..Len(Routes) : Str(Routes[i].destination) = d

\* the variables of the routes that lead to destination d
VariablesOfDestination(d) ==
    UNION {{route.variables[j] : j \in 1..Len(route.variables)} :
             route \in {TheRouter.table[i] : i \in {k \in 1..Len(Routes) :
                                                     Str(Routes[k].destination) = d}}}

NamesOfDestination(d) == {variable.name : variable \in VariablesOfDestination(d)}

PluralNamesOfDestination(d) ==
    {variable.name : variable \in {v \in VariablesOfDestination(d) : v.plural}}

\* the assignments to a state object and to a parameter
StateMutations == {"destination", "remainingPath", "parameters", "parameter"}

\* the arrays that are the value of a plural parameter of the destination of
\* the observed state object
BoundArrays ==
    {cid \in 1..Len(colls) :
        /\ link.on
        /\ link.state.t = "obj"
        /\ objs[link.state.id].parameters.t = "obj"
        /\ \E name \in PluralNamesOfDestination(objs[link.state.id].destination) :
              Get(params[objs[link.state.id].parameters.id], name) = ArrRef(cid)}

\* C1: re-entrancy guard.  An assignment of path never makes the controller's
\* emit assign path, and parses at most once; an assignment of state, of a
\* property of a state object or of a parameter, and a push, never make the
\* path observer parse.
ReentrancyGuard ==
    /\ lastOp.op = "path" => writes = 0 /\ parses <= 1
    /\ lastOp.op \in StateMutations \cup {"state", "push"} => parses = 0

\* a path was assigned, parsed, and the emit that followed the new state was
\* called and held back
ReentrancyGuardWitness ==
    /\ lastOp.op = "path"
    /\ link.pathObserver
    /\ parses = 1
    /\ emits > 0
    /\ writes = 0

\* C2: path to state.  After linking, when a non-null p was assigned to path
\* and the assignment returned, state is what the first route of the table
\* that matches p returns, and undefined when none matches.
PathToState ==
    lastOp.op = "path" /\ ~IsNullish(lastOp.value) /\ link.pathObserver /\ ~threw =>
        LET p == lastOp.value.v
            hits == {i \in 1..Len(TheRouter.table) :
                        match(TheRouter.table[i], p) # Undefined}
        IN  IF hits = {} THEN state = Undefined
            ELSE /\ state.t = "obj"
                 /\ StateValue(Machine, state.id) = match(TheRouter.table[Min(hits)], p)

\* "/photos/10" was assigned: two routes match it
PathToStateWitness ==
    /\ lastOp.op = "path"
    /\ lastOp.value = Str("/photos/10")
    /\ link.pathObserver
    /\ state.t = "obj"
    /\ Cardinality({i \in 1..Len(TheRouter.table) :
                       match(TheRouter.table[i], "/photos/10") # Undefined}) = 2

\* C3: state to path on a destination change.  After linking, when
\* state.destination was assigned a destination that has a route, nothing was
\* thrown and the emitted path is stringify(state).
DestinationChangeEmits ==
    lastOp.op = "destination" /\ link.on /\ Registered(objs[1].destination) =>
        ~threw /\ path = stringify(TheRouter, StateValue(Machine, 1))

\* "colon" was assigned, the destination of the route "/::" that has no
\* variable: emit was not called and the path is still that of the
\* destination before
ColonLeavesPathStale ==
    /\ lastOp.op = "destination"
    /\ link.on
    /\ objs[1].destination = Str("colon")
    /\ emits = 0
    /\ path # Str("/:")

\* C4: state to path on a parameter change.  While the observed state has a
\* destination D, when a parameter of state.parameters that is a variable of
\* any route of D was assigned, emit was called, nothing was thrown and the
\* emitted path is stringify(state).
ParameterChangeEmits ==
    /\ lastOp.op = "parameter"
    /\ link.on
    /\ objs[1].parameters = ObjRef(lastOp.pid)
    /\ lastOp.name \in NamesOfDestination(objs[1].destination)
    => ~threw /\ emits > 0 /\ path = stringify(TheRouter, StateValue(Machine, 1))

\* id was assigned while the destination was photos: id is a variable of the
\* first route of photos and none of the route stringify uses
ParameterChangeEmitsWitness ==
    /\ lastOp.op = "parameter"
    /\ lastOp.name = "id"
    /\ link.on
    /\ objs[1].parameters = ObjRef(lastOp.pid)
    /\ objs[1].destination = Str("photos")
    /\ emits > 0

\* C5: release.  After the cancel function observePath returned was called,
\* no assignment and no push calls emit or throws.
ReleaseSilences ==
    ~link.on /\ lastOp.op # "release" => emits = 0 /\ ~threw

\* a parameter was assigned after the release and emit was called
EmitAfterRelease ==
    /\ ~link.on
    /\ lastOp.op = "parameter"
    /\ emits > 0

\* C6: the reactive path never raises.  No assignment to a property of the
\* state or to a parameter throws, and while the destination has no route the
\* emitted path is undefined.
NeverRaises ==
    lastOp.op \in StateMutations =>
        /\ ~threw
        /\ (link.on /\ ~Registered(objs[1].destination) => path = Undefined)

\* a parameter was assigned while the destination was "nowhere" and the
\* assignment threw
ParameterAssignmentThrows ==
    /\ lastOp.op = "parameter"
    /\ link.on
    /\ objs[1].destination = Str("nowhere")
    /\ threw

\* C7: one recomputation per push.  A push to an array bound to a plural
\* parameter of the destination calls emit exactly once, with stringify(state).
OnePushOneEmit ==
    lastOp.op = "push" /\ lastOp.cid \in BoundArrays =>
        ~threw /\ emits = 1 /\ path = stringify(TheRouter, StateValue(Machine, 1))

\* one push to the bound array called emit twice
PushEmitsTwice ==
    /\ lastOp.op = "push"
    /\ lastOp.cid \in BoundArrays
    /\ emits = 2

\* C8: plural parameter identity.  A push to the array a plural parameter is
\* bound to calls emit; a push to an array no parameter is bound to any more
\* calls nothing; and when a plural parameter of photos was assigned null,
\* the emitted path is "/photos/".
PluralIdentity ==
    /\ lastOp.op = "push" /\ lastOp.cid \in BoundArrays => emits > 0
    /\ (/\ lastOp.op = "push"
        /\ \A pid \in 1..Len(params), name \in ParameterNames :
              Get(params[pid], name) # ArrRef(lastOp.cid))
       => emits = 0 /\ ~threw
    /\ (/\ lastOp.op = "parameter"
        /\ link.on
        /\ objs[1].parameters = ObjRef(lastOp.pid)
        /\ objs[1].destination = Str("photos")
        /\ objs[1].remainingPath = Undefined
        /\ lastOp.name \in PluralNamesOfDestination(objs[1].destination)
        /\ params[lastOp.pid][lastOp.name] = Null)
       => path = Str("/photos/")

\* a push to an array that is the value of no parameter called emit
UnboundArrayStillObserved ==
    /\ lastOp.op = "push"
    /\ \A pid \in 1..Len(params), name \in ParameterNames :
          Get(params[pid], name) # ArrRef(lastOp.cid)
    /\ emits > 0

\* C9: the subscriptions follow the destination.  While the destination has
\* a route, assigning a parameter that is a variable of none of its routes
\* does not call emit.
SubscriptionsFollowDestination ==
    /\ lastOp.op = "parameter"
    /\ link.on
    /\ Registered(objs[1].destination)
    /\ lastOp.name \notin NamesOfDestination(objs[1].destination)
    => emits = 0

\* ids, a variable of photos and not of notes, was assigned while the
\* destination was notes, and emit was called
FormerVariableStillObserved ==
    /\ lastOp.op = "parameter"
    /\ lastOp.name = "ids"
    /\ link.on
    /\ objs[1].destination = Str("notes")
    /\ emits > 0

\* C10: stringify throws for exactly the states whose destination has no
\* route, and returns a string for the others.
StringifyThrowsIffUnregistered ==
    IF Registered(objs[1].destination)
    THEN stringify(TheRouter, StateValue(Machine, 1)).t = "str"
    ELSE stringify(TheRouter, StateValue(Machine, 1)) = Throw

\* the destination is "toString", which has no route, and stringify returns
\* undefined
StringifyReturnsNothing ==
    /\ objs[1].destination = Str("toString")
    /\ stringify(TheRouter, StateValue(Machine, 1)) = Undefined

(***************************************************************************)
(* Properties of parse, match and stringify, under SpecRouter.             *)
(***************************************************************************)
\* the Router has a route for the destination of state st
HasRoute(router, st) ==
    /\ st.destination.t = "str"
    /\ st.destination.v \in DOMAIN router.backTable

\* the route stringify generates from for destination d: the last of its table
GeneratingRoute(router, d) == router.backTable[d][Len(router.backTable[d])]

\* state st assigns each variable of route that is no remainder a value of
\* its kind (an array of integers or of strings for a plural, an integer, or
\* a string free of "&" and "/") and no other parameter, and has a remaining
\* path only where route has a remainder
Satisfies(route, st) ==
    LET variables == {route.variables[j] : j \in {k \in 1..Len(route.variables) :
                                                    route.variables[k].prefix # "..."}}
        OfKind(variable, value) ==
            IF variable.plural
            THEN /\ value.t = "arr"
                 /\ \A k \in 1..Len(value.v) :
                       value.v[k].t = IF variable.numeric THEN "num" ELSE "str"
            ELSE IF variable.numeric THEN value.t = "num"
            ELSE value.t = "str" /\ CharsOf(value.v) \cap {"&", "/"} = {}
    IN  /\ ~IsNullish(st.parameters)
        /\ DOMAIN st.parameters.f = {v.name : v \in variables}
        /\ \A v \in variables : OfKind(v, st.parameters.f[v.name])
        /\ \/ st.remainingPath = Undefined
           \/ \E j \in 1..Len(route.variables) : route.variables[j].prefix = "..."

\* C11: parse of what stringify made of a state that satisfies the terms of
\* the generating route of its destination returns the destination, the
\* parameters and the remainingPath of that state.
RoundTrip ==
    LET Holds(router) ==
            (/\ HasRoute(router, input)
             /\ Satisfies(GeneratingRoute(router, input.destination.v), input))
            => /\ output.t = "object"
               /\ output.destination = input.destination
               /\ output.parameters = input.parameters
               /\ output.remainingPath = input.remainingPath
    IN  lastOp.op = "parseStringified" => Holds(RouterOf(args))

\* a state with remaining path "/a/b" for route "/files/..." went through
\* stringify and parse: the result holds "/a/b" as path and no remainingPath
RemainderLostInRoundTrip ==
    /\ lastOp.op = "parseStringified"
    /\ input.destination = Str("files")
    /\ input.remainingPath = Str("/a/b")
    /\ Satisfies(GeneratingRoute(RouterOf(args), "files"), input)
    /\ output.t = "object"
    /\ output.destination = Str("files")
    /\ output.path = Str("/a/b")
    /\ output.remainingPath = Undefined

\* route has a remainder variable
HasRemainder(route) ==
    \E j \in 1..Len(route.variables) : route.variables[j].prefix = "..."

\* C12: the object match returns for a route with a remainder holds the
\* unmatched tail of the path as remainingPath, the field stringify reads:
\* the path is what the terms before the remainder generate, followed by it;
\* for a route without a remainder remainingPath is absent.
RemainderField ==
    LET Holds(route) ==
            IF HasRemainder(route)
            THEN /\ output.remainingPath.t = "str"
                 /\ input.v = StringifyTerms(route.terms, 1, output).v
                               \o output.remainingPath.v
            ELSE output.remainingPath = Undefined
    IN  (lastOp.op = "match" /\ output.t = "object")
        => Holds(RouterOf(args).table[lastOp.route])

\* "/files/a/b" matched "/files/...": the tail "/a/b" is under path, and
\* remainingPath is absent
TailUnderPath ==
    /\ lastOp.op = "match"
    /\ input = Str("/files/a/b")
    /\ output.t = "object"
    /\ HasRemainder(RouterOf(args).table[lastOp.route])
    /\ output.path = Str("/a/b")
    /\ output.remainingPath = Undefined

\* the routes of router whose match accepts path, by their place in the table
MatchingRoutes(router, p) ==
    {i \in 1..Len(router.table) : match(router.table[i], p) # Undefined}

\* C13: parse returns what the earliest route of the table that matches the
\* path returns, and undefined exactly when no route matches.
FirstMatchPriority ==
    LET Holds(router) ==
            IF MatchingRoutes(router, input.v) = {}
            THEN output = Undefined
            ELSE output = match(router.table[Min(MatchingRoutes(router, input.v))], input.v)
    IN  lastOp.op = "parse" => Holds(RouterOf(args))

\* "/notes/detail" matches "/notes/:noteId?" and "/notes/:noteId?/detail":
\* parse returned the result of the earlier one
FirstOfTwoMatches ==
    /\ lastOp.op = "parse"
    /\ input = Str("/notes/detail")
    /\ Cardinality(MatchingRoutes(RouterOf(args), input.v)) = 2
    /\ output.t = "object"
    /\ output.destination = Str("notes")
    /\ output.parameters.f["noteId"] = Str("detail")

\* the path the terms of route generate for state st
GenerateFrom(route, st) ==
    LET Joined(parts) ==
            IF parts = Throw THEN Throw
            ELSE Str(parts.v \o (IF IsFalsy(st.remainingPath)
                                 THEN ""
                                 ELSE StringOf(st.remainingPath)))
    IN  Joined(StringifyTerms(route.terms, 1, st))

\* C14: for a destination with routes, stringify returns what the most
\* recently registered route of that destination generates, whatever
\* parameters the state has.
GenerationRoute ==
    LET Holds(router) ==
            HasRoute(router, input)
            => output = GenerateFrom(GeneratingRoute(router, input.destination.v), input)
    IN  lastOp.op = "stringify" => Holds(RouterOf(args))

\* two routes lead to "photos"; the state has the parameter of the earlier
\* one only, and the path is the one the later route generates
LaterRouteGenerates ==
    /\ lastOp.op = "stringify"
    /\ args.routes = Routes
    /\ input.destination = Str("photos")
    /\ ~IsNullish(input.parameters)
    /\ DOMAIN input.parameters.f = {"id"}
    /\ input.parameters.f["id"] = Num(42)
    /\ Len(RouterOf(args).backTable["photos"]) = 2
    /\ output = Str("/photos/")

\* the literals of terms as they are, a slash and the value for each
\* parameter that is neither null nor undefined, nothing for the others
RECURSIVE SlashAndValue(_, _, _)
SlashAndValue(terms, j, st) ==
    IF j > Len(terms) THEN ""
    ELSE LET term == terms[j]
             value == IF term.type = "variable"
                      THEN Get(st.parameters.f, term.name)
                      ELSE Undefined
             part == IF term.type = "literal" THEN term.value
                     ELSE IF ~IsNullish(value) THEN "/" \o StringOf(value)
                     ELSE ""
         IN  part \o SlashAndValue(terms, j + 1, st)

\* C15: for a route whose variables are singular and preceded by a slash,
\* and a state that has parameters and leaves out optional variables only,
\* stringify emits the slash and the value of every parameter that is not
\* null or undefined, 0 and the empty string included, and neither slash nor
\* value for an optional variable the state leaves out.
SlashWithValue ==
    LET SlashedSingulars(route) ==
            \A j \in 1..Len(route.variables) :
                /\ route.variables[j].slash
                /\ ~route.variables[j].plural
                /\ route.variables[j].prefix # "..."
        LeavesOutOptionalOnly(route) ==
            /\ ~IsNullish(input.parameters)
            /\ \A j \in 1..Len(route.variables) :
                  \/ route.variables[j].optional
                  \/ ~IsNullish(Get(input.parameters.f, route.variables[j].name))
        Holds(route) ==
            (SlashedSingulars(route) /\ LeavesOutOptionalOnly(route))
            => output = Str(SlashAndValue(route.terms, 1, input))
        OfRouter(router) ==
            HasRoute(router, input)
            => Holds(GeneratingRoute(router, input.destination.v))
    IN  lastOp.op = "stringify" => OfRouter(RouterOf(args))

\* the tests' state with noteId 0, a value that is falsy and present: the
\* path is "/notes/0/detail"
FalsyValueEmitted ==
    /\ lastOp.op = "stringify"
    /\ args.routes = TestRoutes
    /\ input.destination = Str("notes-detail")
    /\ ~IsNullish(input.parameters)
    /\ Get(input.parameters.f, "noteId") = Num(0)
    /\ output = Str("/notes/0/detail")

\* the literal terms of a route, joined
RECURSIVE LiteralPrefix(_, _)
LiteralPrefix(terms, j) ==
    IF j > Len(terms) \/ terms[j].type # "literal" THEN ""
    ELSE terms[j].value \o LiteralPrefix(terms, j + 1)

\* the decimal numerals of the integers of a sequence, joined by "&"
RECURSIVE JoinNumerals(_)
JoinNumerals(ns) ==
    IF Len(ns) = 1 THEN NatToString(ns[1])
    ELSE NatToString(ns[1]) \o "&" \o JoinNumerals(Tail(ns))

\* C16: the match function of a route that ends with a plural integer
\* variable preceded by a slash gives the empty sequence for the literal
\* prefix alone and for the prefix with a bare slash, and the integers in
\* order for the prefix, a slash and their numerals joined by "&" (one to
\* three of the integers 10, 20, 30).
PluralCardinality ==
    LET EndsWithIntegerPlural(route) ==
            /\ Len(route.terms) >= 2
            /\ \A j \in 1..(Len(route.terms) - 1) : route.terms[j].type = "literal"
            /\ route.terms[Len(route.terms)].type = "variable"
            /\ route.terms[Len(route.terms)].plural
            /\ route.terms[Len(route.terms)].numeric
            /\ route.terms[Len(route.terms)].slash
        IntegerRuns == UNION {[1..k -> {10, 20, 30}] : k \in 1..3}
        Gives(name, ns) ==
            /\ output.t = "object"
            /\ output.parameters.f[name] = Arr([i \in DOMAIN ns |-> Num(ns[i])])
        Holds(route) ==
            LET prefix == LiteralPrefix(route.terms, 1)
                name == route.terms[Len(route.terms)].name
            IN  /\ input.v \in {prefix, prefix \o "/"} => Gives(name, <<>>)
                /\ \A ns \in IntegerRuns :
                      input.v = prefix \o "/" \o JoinNumerals(ns) => Gives(name, ns)
        OfRoute(route) == EndsWithIntegerPlural(route) => Holds(route)
    IN  lastOp.op = "match" => OfRoute(RouterOf(args).table[lastOp.route])

\* "/photos/10&20&30" matched "/photos/+photoIds&" and gave [10, 20, 30]
ThreeIntegersParsed ==
    /\ lastOp.op = "match"
    /\ args.routes = TestRoutes
    /\ lastOp.route = 1
    /\ input = Str("/photos/10&20&30")
    /\ output.t = "object"
    /\ output.parameters.f["photoIds"] = Arr(<<Num(10), Num(20), Num(30)>>)

\* C17: a path that differs from what a route matches only in letter case
\* (the RegExp of the route matches it with the flag i, and not without) is
\* matched by the route of a Router constructed with the case-insensitive
\* flag, and is not matched by the route of a Router constructed without it.
CaseInsensitiveFlag ==
    LET DiffersInCaseOnly(route) ==
            /\ MatchFrom(route.re, 1, input.v, 1, TRUE).t = "ok"
            /\ MatchFrom(route.re, 1, input.v, 1, FALSE).t # "ok"
        Holds(route) ==
            DiffersInCaseOnly(route)
            => (output # Undefined <=> ~IsFalsy(args.insensitive))
    IN  lastOp.op = "match" => Holds(RouterOf(args).table[lastOp.route])

\* the Router was constructed with insensitive = true, and "/PHOTOS/10" is no
\* match of its route "/photos/+photoIds&"
FlagIgnored ==
    /\ lastOp.op = "match"
    /\ args.insensitive = True
    /\ input = Str("/PHOTOS/10")
    /\ args.routes = TestRoutes
    /\ lastOp.route = 1
    /\ output = Undefined

\* the variable tokens of a pattern, in order
VariableTokens(pattern) ==
    LET IsVariable(tok) == tok.kind = "variable"
    IN  SelectSeq(Tokens(pattern, 1), IsVariable)

PopstatePreferred ==
    [][lastOp'.op = "hashchange"
       => IF controller.popstate
          THEN /\ controller'.path = controller.path
               /\ controller'.query = controller.query
          ELSE [c |-> controller', w |-> window'] =
                   computeRemainingPath(
                       [Browser EXCEPT
                           !.w = pushState(@, WithFragment(Location(window),
                                                           lastOp'.fragment))])]_vars

\* a popstate event was handled, then the user went to "#!/b?q=2": path and
\* query are not those of the location
HashchangeAfterPopstate ==
    /\ lastOp.op = "hashchange"
    /\ lastOp.fragment = "#!/b?q=2"
    /\ controller.popstate
    /\ HashbangExec(Location(window)) = Str("b?q=2")
    /\ controller.path # Str("b")
    /\ controller.query # Str("q=2")

\* C20: an assignment of a non-null path replaces the current entry of the
\* session history (the number of entries and the place of the current one
\* stay), an assignment of null leaves the window as it is, and of the
\* controller's operations only mark adds an entry: handling an event adds
\* none to the entries the navigation left.
HistoryReplaced ==
    [][/\ (lastOp'.op = "path" /\ ~IsNullish(controller'.path))
          => /\ Len(window'.entries) = Len(window.entries)
             /\ window'.index = window.index
       /\ (lastOp'.op = "path" /\ IsNullish(controller'.path))
          => window' = window
       /\ lastOp'.op \in {"query", "destructor", "popstate"}
          => Len(window'.entries) = Len(window.entries)
       /\ lastOp'.op = "hashchange"
          => Len(window'.entries) = window.index + 1]_vars

\* in a window without the History API, with the base tag "http://h/app/",
\* the first operation assigned the path "a": the session history has a
\* second entry
PathAssignmentAddedEntry ==
    /\ lastOp.op = "path"
    /\ ops = 1
    /\ ~window.history
    /\ controller.path = Str("a")
    /\ window.entries = <<"http://h/app/", "http://h/app/#a">>
    /\ window.index = 2

\* C21: an assignment of query is reflected on the window location: after it
\* the URL carries the new query, "?" and the query where the query is not
\* empty, and no "?" where it is.
QueryWrittenBack ==
    [][lastOp'.op = "query"
       => IF controller'.query.v = ""
          THEN IndexOf(Location(window'), "?", 1) = 0
          ELSE IndexOf(Location(window'), "?" \o controller'.query.v, 1) > 0]_vars

\* the application assigned the query "q=1", and the URL has no query
QueryNotInLocation ==
    /\ lastOp.op = "query"
    /\ controller.query = Str("q=1")
    /\ window.history
    /\ IndexOf(Location(window), "?", 1) = 0

\* C22: for a route whose pattern has neither variables nor escapes, stringify
\* of a state with its destination returns prefix + pattern, and parse of
\* that string returns the destination.
PatternVerbatim ==
    LET Plain(pattern) ==
            \A k \in 1..Len(Tokens(pattern, 1)) :
                Tokens(pattern, 1)[k].kind \notin {"variable", "escape"}
        \* the place in routes of the route stringify generates from
        Generating(d) ==
            Max({r \in 1..Len(args.routes) : args.routes[r].destination = d})
        Holds(pattern) ==
            Plain(pattern)
            => /\ lastOp.op = "stringify" => output = Str(pattern)
               /\ lastOp.op = "parseStringified"
                  => /\ output.t = "object"
                     /\ output.destination = input.destination
    IN  (/\ lastOp.op \in {"stringify", "parseStringified"}
         /\ input.destination.v \in DOMAIN RouterOf(args).backTable)
        => Holds(args.prefix \o args.routes[Generating(input.destination.v)].pattern)

\* the route "/photos/" generated "/photos", without its trailing slash
TrailingSlashDropped ==
    /\ lastOp.op = "stringify"
    /\ args.routes = MoreRoutes
    /\ input.destination = Str("photos")
    /\ Len(RouterOf(args).backTable["photos"][1].terms) = 1
    /\ output = Str("/photos")

(***************************************************************************)
(* Properties of the RouteController's propagation, under SpecRC.          *)
(***************************************************************************)
\* C23: while the state property holds another object than a state object it
\* held before, an assignment of that earlier object's destination, of a
\* parameter of its parameters object or a push to one of its arrays does not
\* assign path.
PreviousStateSilent ==
    [][LET parameters == objs[state.id].parameters
           Arrays == IF parameters.t = "obj"
                     THEN {params[parameters.id][name].id :
                              name \in {n \in DOMAIN params[parameters.id] :
                                           params[parameters.id][n].t = "ref"}}
                     ELSE {}
           OfPrevious ==
               \/ lastOp'.op = "destination" /\ lastOp'.sid # state.id
               \/ lastOp'.op = "parameter" /\ parameters # ObjRef(lastOp'.pid)
               \/ lastOp'.op = "push" /\ lastOp'.cid \notin Arrays
       IN  (state.t = "obj" /\ state' = state /\ OfPrevious)
           => writes' = 0 /\ path' = path]_vars

\* the path "/notes/7" made the second state object the state, and then an
\* assignment of a parameter of the first one's parameters object wrote path
PreviousStateWrotePath ==
    /\ lastOp.op = "parameter"
    /\ lastOp.pid = 1
    /\ state = ObjRef(2)
    /\ objs[2].parameters = ObjRef(2)
    /\ objs[2].destination = Str("notes")
    /\ objs[1].parameters = ObjRef(1)
    /\ writes > 0
    /\ path # Str("/notes/7")

\* C24: _inFlux is false after every operation, also one that threw, and so
\* the next propagation is not blocked: a path assigned while the path
\* observer is registered is parsed, and every emit of an assignment to the
\* state or to its objects assigns path.
FluxReset ==
    [][/\ inFlux' = FALSE
       /\ (lastOp'.op = "path" /\ link.pathObserver /\ ~IsNullish(lastOp'.value))
          => parses' = 1
       /\ lastOp'.op \in {"state", "destination", "remainingPath", "parameters",
                          "parameter", "push"}
          => writes' = emits']_vars

\* parse threw for the path "/tags/%" after the path observer had set _inFlux,
\* and _inFlux is false
FailedParseResetFlux ==
    /\ lastOp.op = "path"
    /\ lastOp.value = Str("/tags/%")
    /\ parse(TheRouter, "/tags/%") = Throw
    /\ threw
    /\ parses = 1
    /\ ~inFlux

====
